---- MODULE Spec2Model ----
(***************************************************************************)
(* The image-generation API route of next-iamgeg, in its four versions:    *)
(*   "text"      one bold span                    (part_000)               *)
(*   "thinblack" stacked thin + black spans       (part_001)               *)
(*   "textbold"  regular span + optional bold one (generate-image.ts:11)   *)
(*   "lines"     rows of mixed-weight spans       (generate-image.ts:117)  *)
(* Each request runs the async handler: a synchronous segment up to the    *)
(* `await satori(...)`, one up to the `await import(...)`, and one to the  *)
(* response.  Node runs each segment without interruption, so each is one  *)
(* action; segments of different requests interleave freely.               *)
(***************************************************************************)
EXTENDS Integers, Sequences, FiniteSets, TLC

VARIABLES variant, fontFiles, satoriMode, resvgMode,
          pc, query, locals, parsedLines, tree, opts, svg,
          response, attempts, failedStage

vars == <<variant, fontFiles, satoriMode, resvgMode,
          pc, query, locals, parsedLines, tree, opts, svg,
          response, attempts, failedStage>>

envVars == <<variant, fontFiles, satoriMode, resvgMode>>

(***************************************************************************)
(* Bounds of the model.                                                    *)
(***************************************************************************)
NumRequests == 3

Requests == 1..NumRequests

Variants == {"text", "thinblack", "textbold", "lines"}

(***************************************************************************)
(* JavaScript values.  A string is the sequence of its characters, each a  *)
(* one-character string, so that parseInt, the base64 decoder and          *)
(* JSON.parse can read it character by character.                          *)
(***************************************************************************)
\* A number: an integer or NaN.
Num(k) == [nan |-> FALSE, n |-> k]
NaN == [nan |-> TRUE, n |-> 0]

\* A query value as Next.js delivers it: absent, a string, or an array of
\* strings (a repeated key).
QAbsent == [k |-> "absent"]
QStr(s) == [k |-> "str", s |-> s]
QArr(a) == [k |-> "arr", a |-> a]

\* A value held by a handler local: undefined or a string.
Undefined == [k |-> "undef"]

\* JSON values, as JSON.parse returns them, and undefined.  An object is
\* the sequence of its members in source order.
JUndef == [t |-> "undef"]
JNull == [t |-> "null"]
JBool(b) == [t |-> "bool", b |-> b]
JNum(k) == [t |-> "num", n |-> k]
JStr(s) == [t |-> "str", s |-> s]
JArr(items) == [t |-> "arr", items |-> items]
JObj(members) == [t |-> "obj", members |-> members]

(***************************************************************************)
(* Array.isArray(x) ? x[0] : x                                             *)
(***************************************************************************)
FirstOrSelf(q) ==
  IF q.k = "arr"
    THEN (IF Len(q.a) > 0 THEN QStr(q.a[1]) ELSE Undefined)
    ELSE (IF q.k = "str" THEN q ELSE Undefined)

\* typeof x === 'string'
IsString(x) == x.k = "str"

\* Truthiness of undefined | string | string[]: arrays are objects, hence
\* truthy; a string is truthy when non-empty.
Truthy(x) ==
  CASE x.k = "arr" -> TRUE
    [] x.k = "str" -> Len(x.s) > 0
    [] OTHER -> FALSE

(***************************************************************************)
(* String(x) and parseInt(s, 10) over sequences of characters.             *)
(***************************************************************************)
RECURSIVE Join(_)
Join(a) ==
  IF Len(a) = 0 THEN <<>>
  ELSE IF Len(a) = 1 THEN a[1]
  ELSE a[1] \o <<",">> \o Join(Tail(a))

\* String(x) for a string or an array of strings (Array.prototype.toString
\* joins with ",").
StringOf(x) == IF x.k = "arr" THEN Join(x.a) ELSE x.s

Digits == {"0", "1", "2", "3", "4", "5", "6", "7", "8", "9"}

DigitVal(c) ==
  CASE c = "0" -> 0 [] c = "1" -> 1 [] c = "2" -> 2 [] c = "3" -> 3
    [] c = "4" -> 4 [] c = "5" -> 5 [] c = "6" -> 6 [] c = "7" -> 7
    [] c = "8" -> 8 [] c = "9" -> 9

RECURSIVE SkipWhite(_)
SkipWhite(s) ==
  IF Len(s) > 0 /\ s[1] = " " THEN SkipWhite(Tail(s)) ELSE s

\* The value of the longest prefix of digits of s, starting from acc.
RECURSIVE DigitsPrefix(_, _)
DigitsPrefix(s, acc) ==
  IF Len(s) > 0 /\ s[1] \in Digits
    THEN DigitsPrefix(Tail(s), 10 * acc + DigitVal(s[1]))
    ELSE acc

ParseInt(str) ==
  LET s == SkipWhite(str)
      neg == Len(s) > 0 /\ s[1] = "-"
      signed == Len(s) > 0 /\ s[1] \in {"-", "+"}
      body == IF signed THEN Tail(s) ELSE s
  IN  IF Len(body) = 0 \/ body[1] \notin Digits
        THEN NaN
        ELSE Num((IF neg THEN -1 ELSE 1) * DigitsPrefix(body, 0))

(***************************************************************************)
(* Defaults.                                                               *)
(***************************************************************************)
DefaultWidth == 1200
DefaultHeight == 630
DefaultFontSize == 64
DefaultColor == <<"#", "0", "0", "0", "0", "0", "0">>
DefaultText == <<"H", "e", "l", "l", "o">>
EmptyStr == <<>>

\* p ? parseInt(String(p), 10) : dflt
DimAlwaysParsed(p, dflt) ==
  IF p.k \in {"str", "arr"} THEN ParseInt(StringOf(p)) ELSE NaN

NormDim(p, dflt) == IF Truthy(p) THEN ParseInt(StringOf(p)) ELSE Num(dflt)

\* typeof p === 'string' && p.length > 0 ? p : dflt
NonEmptyOr(p, dflt) == IF IsString(p) /\ Len(p.s) > 0 THEN p.s ELSE dflt

\* typeof p === 'string' ? p : dflt
StringOr(p, dflt) == IF IsString(p) THEN p.s ELSE dflt

\* Array.isArray(q) ? q[0] : q || dflt   (the conditional binds last, so
\* the default applies to the non-array branch only).  Next.js delivers an
\* array only for a repeated key, so q[0] exists.
FirstOrDefaulted(q, dflt) ==
  IF q.k = "arr" THEN q.a[1] ELSE (IF Truthy(q) THEN q.s ELSE dflt)

(***************************************************************************)
(* Buffer.from(s, 'base64').toString('utf-8').  Node's decoder never       *)
(* throws: it skips every character outside the alphabet and stops at the  *)
(* first '='; toString never throws either.                                *)
(***************************************************************************)
B64Alphabet ==
  <<"A", "B", "C", "D", "E", "F", "G", "H", "I", "J", "K", "L", "M", "N",
    "O", "P", "Q", "R", "S", "T", "U", "V", "W", "X", "Y", "Z", "a", "b",
    "c", "d", "e", "f", "g", "h", "i", "j", "k", "l", "m", "n", "o", "p",
    "q", "r", "s", "t", "u", "v", "w", "x", "y", "z", "0", "1", "2", "3",
    "4", "5", "6", "7", "8", "9", "+", "/">>

B64Chars == {B64Alphabet[k] : k \in 1..Len(B64Alphabet)}
B64Position == [c \in B64Chars |-> CHOOSE k \in 1..Len(B64Alphabet) : B64Alphabet[k] = c]

\* The six-bit value of a character, -1 outside the alphabet ('-' and '_',
\* the URL-safe forms, are accepted).
B64Index(c) ==
  IF c \in B64Chars THEN B64Position[c] - 1
  ELSE IF c = "-" THEN 62 ELSE IF c = "_" THEN 63 ELSE -1

\* The least element of a non-empty set of positions.
Least(S) == CHOOSE k \in S : \A h \in S : k <= h

\* The six-bit values of the characters of s before the first '=', those
\* outside the alphabet skipped.
Sextets(s) ==
  LET pads == {k \in 1..Len(s) : s[k] = "="}
      body == IF pads = {} THEN s ELSE SubSeq(s, 1, Least(pads) - 1)
      InAlphabet(c) == c \in B64Chars \cup {"-", "_"}
      kept == SelectSeq(body, InAlphabet)
  IN  [k \in 1..Len(kept) |-> B64Index(kept[k])]

\* Four six-bit values make three bytes; a final group of three makes two,
\* of two makes one, and a single value makes none.
GroupBytes(x) ==
  LET rest == Len(x) % 4
      count == 3 * (Len(x) \div 4)
                 + (IF rest = 3 THEN 2 ELSE IF rest = 2 THEN 1 ELSE 0)
      At(k) == IF k <= Len(x) THEN x[k] ELSE 0
      Word(g) == At(4 * g + 1) * 262144 + At(4 * g + 2) * 4096
                   + At(4 * g + 3) * 64 + At(4 * g + 4)
      Byte(k) ==
        LET w == Word((k - 1) \div 3)
            pos == (k - 1) % 3
        IN  IF pos = 0 THEN w \div 65536
            ELSE IF pos = 1 THEN (w \div 256) % 256
            ELSE w % 256
  IN  [k \in 1..count |-> Byte(k)]

Base64Decode(s) == GroupBytes(Sextets(s))

Ascii ==
  <<" ", "!", "\"", "#", "$", "%", "&", "'", "(", ")", "*", "+", ",", "-",
    ".", "/", "0", "1", "2", "3", "4", "5", "6", "7", "8", "9", ":", ";",
    "<", "=", ">", "?", "@", "A", "B", "C", "D", "E", "F", "G", "H", "I",
    "J", "K", "L", "M", "N", "O", "P", "Q", "R", "S", "T", "U", "V", "W",
    "X", "Y", "Z", "[", "\\", "]", "^", "_", "GRAVE", "a", "b", "c", "d", "e",
    "f", "g", "h", "i", "j", "k", "l", "m", "n", "o", "p", "q", "r", "s",
    "t", "u", "v", "w", "x", "y", "z", "{", "|", "}", "~">>

\* The character of a byte ("GRAVE" stands for the grave accent, which
\* the TLA+ lexer does not take in a string).  Bytes outside ASCII (a multi-byte character, or
\* U+FFFD for an ill-formed sequence) and the other control characters are
\* each one token: no JSON token is made of them.
CharOf(b) ==
  IF b >= 32 /\ b <= 126 THEN Ascii[b - 31]
  ELSE IF b = 9 THEN "\t"
  ELSE IF b = 10 THEN "\n"
  ELSE IF b = 13 THEN "\r"
  ELSE IF b >= 128 THEN "NONASCII"
  ELSE "CTRL"

Utf8ToString(bytes) == [k \in 1..Len(bytes) |-> CharOf(bytes[k])]

Base64DecodeUtf8(s) == Utf8ToString(Base64Decode(s))

(***************************************************************************)
(* JSON.parse, a recursive-descent reader of the grammar of ECMA-404       *)
(* without fractions, exponents and string escapes (a text using one is    *)
(* rejected here; no payload of the model uses one).  Each reader takes    *)
(* the text and a position and returns the value and the position after it.*)
(***************************************************************************)
Fail == [ok |-> FALSE, v |-> JUndef, i |-> 0]
Ok(v, i) == [ok |-> TRUE, v |-> v, i |-> i]

IsWs(c) == c \in {" ", "\t", "\n", "\r"}

\* The first position from i on that holds no white space.
RECURSIVE SkipWs(_, _)
SkipWs(s, i) == IF i <= Len(s) /\ IsWs(s[i]) THEN SkipWs(s, i + 1) ELSE i

StartsWith(s, i, w) ==
  i + Len(w) - 1 <= Len(s) /\ SubSeq(s, i, i + Len(w) - 1) = w

\* The first position from i on that holds no digit.
RECURSIVE DigitsEnd(_, _)
DigitsEnd(s, i) ==
  IF i <= Len(s) /\ s[i] \in Digits THEN DigitsEnd(s, i + 1) ELSE i

ParseNumber(s, i) ==
  LET neg == s[i] = "-"
      j == IF neg THEN i + 1 ELSE i
      \* a leading 0 is a number on its own
      e == IF j <= Len(s) /\ s[j] = "0" THEN j + 1 ELSE DigitsEnd(s, j)
  IN  IF e = j THEN Fail
      ELSE IF e <= Len(s) /\ s[e] \in {".", "e", "E"} THEN Fail
      ELSE Ok(JNum((IF neg THEN -1 ELSE 1) * DigitsPrefix(SubSeq(s, j, e - 1), 0)), e)

\* The position of the closing quote of the string whose content starts at
\* i, 0 when there is none (the text ends, or a backslash or a control
\* character comes first).
RECURSIVE StringEnd(_, _)
StringEnd(s, i) ==
  IF i > Len(s) THEN 0
  ELSE IF s[i] = "\"" THEN i
  ELSE IF s[i] \in {"\\", "\t", "\n", "\r", "CTRL"} THEN 0
  ELSE StringEnd(s, i + 1)

ParseString(s, i) ==
  LET e == StringEnd(s, i + 1)
  IN  IF e = 0 THEN Fail ELSE Ok(JStr(SubSeq(s, i + 1, e - 1)), e + 1)

RECURSIVE ParseValue(_, _)
RECURSIVE ParseElements(_, _, _)
RECURSIVE ParseMembers(_, _, _)

ParseValue(s, i0) ==
  LET i == SkipWs(s, i0)
  IN  IF i > Len(s) THEN Fail
      ELSE IF StartsWith(s, i, <<"n", "u", "l", "l">>) THEN Ok(JNull, i + 4)
      ELSE IF StartsWith(s, i, <<"t", "r", "u", "e">>) THEN Ok(JBool(TRUE), i + 4)
      ELSE IF StartsWith(s, i, <<"f", "a", "l", "s", "e">>)
        THEN Ok(JBool(FALSE), i + 5)
      ELSE IF s[i] = "\"" THEN ParseString(s, i)
      ELSE IF s[i] = "["
        THEN LET j == SkipWs(s, i + 1)
             IN  IF j <= Len(s) /\ s[j] = "]"
                   THEN Ok(JArr(<<>>), j + 1)
                   ELSE ParseElements(s, j, <<>>)
      ELSE IF s[i] = "{"
        THEN LET j == SkipWs(s, i + 1)
             IN  IF j <= Len(s) /\ s[j] = "}"
                   THEN Ok(JObj(<<>>), j + 1)
                   ELSE ParseMembers(s, j, <<>>)
      ELSE IF s[i] = "-" \/ s[i] \in Digits THEN ParseNumber(s, i)
      ELSE Fail

\* The elements of an array after acc, up to the closing bracket.
ParseElements(s, i, acc) ==
  LET r == ParseValue(s, i)
      j == SkipWs(s, r.i)
  IN  IF ~r.ok \/ j > Len(s) THEN Fail
      ELSE IF s[j] = "," THEN ParseElements(s, j + 1, Append(acc, r.v))
      ELSE IF s[j] = "]" THEN Ok(JArr(Append(acc, r.v)), j + 1)
      ELSE Fail

\* The members of an object after acc, up to the closing brace.
ParseMembers(s, i, acc) ==
  LET k0 == SkipWs(s, i)
      k == ParseString(s, k0)
      c == SkipWs(s, k.i)
      r == ParseValue(s, c + 1)
      j == SkipWs(s, r.i)
      m == [key |-> k.v.s, val |-> r.v]
  IN  IF k0 > Len(s) \/ s[k0] # "\"" THEN Fail
      ELSE IF ~k.ok \/ c > Len(s) \/ s[c] # ":" THEN Fail
      ELSE IF ~r.ok \/ j > Len(s) THEN Fail
      ELSE IF s[j] = "," THEN ParseMembers(s, j + 1, Append(acc, m))
      ELSE IF s[j] = "}" THEN Ok(JObj(Append(acc, m)), j + 1)
      ELSE Fail

\* JSON.parse(text): the value, or a SyntaxError (ok = FALSE).
JsonParse(text) ==
  LET r == ParseValue(text, 1)
  IN  IF r.ok /\ SkipWs(text, r.i) > Len(text)
        THEN [ok |-> TRUE, v |-> r.v]
        ELSE [ok |-> FALSE, v |-> JUndef]

\* if (linesParam) { parsedLines = JSON.parse(decode(linesParam)) },
\* parsedLines being [] before.
DecodeLines(linesParam) ==
  IF Truthy(linesParam)
    THEN JsonParse(Base64DecodeUtf8(linesParam.s))
    ELSE [ok |-> TRUE, v |-> JArr(<<>>)]

(***************************************************************************)
(* Parameter extraction and defaulting of each version.  A local the       *)
(* version does not have is left empty.                                    *)
(***************************************************************************)
NormalizeText(q) ==
  [text |-> NonEmptyOr(FirstOrSelf(q.text), DefaultText),
   bold |-> EmptyStr, thin |-> EmptyStr, black |-> EmptyStr,
   color |-> NonEmptyOr(FirstOrSelf(q.color), DefaultColor),
   width |-> NormDim(FirstOrSelf(q.width), DefaultWidth),
   height |-> NormDim(FirstOrSelf(q.height), DefaultHeight),
   fontSize |-> NormDim(FirstOrSelf(q.fontSize), DefaultFontSize),
   linesParam |-> Undefined]

NormalizeThinBlack(q) ==
  [text |-> EmptyStr, bold |-> EmptyStr,
   thin |-> StringOr(FirstOrSelf(q.thin), EmptyStr),
   black |-> StringOr(FirstOrSelf(q.black), EmptyStr),
   color |-> StringOr(FirstOrSelf(q.color), DefaultColor),
   width |-> NormDim(FirstOrSelf(q.width), DefaultWidth),
   height |-> NormDim(FirstOrSelf(q.height), DefaultHeight),
   fontSize |-> NormDim(FirstOrSelf(q.fontSize), DefaultFontSize),
   linesParam |-> Undefined]

NormalizeTextBold(q) ==
  [text |-> FirstOrDefaulted(q.text, DefaultText),
   bold |-> FirstOrDefaulted(q.bold, EmptyStr),
   thin |-> EmptyStr, black |-> EmptyStr,
   color |-> NonEmptyOr(q.color, DefaultColor),
   width |-> NormDim(q.width, DefaultWidth),
   height |-> NormDim(q.height, DefaultHeight),
   fontSize |-> NormDim(q.fontSize, DefaultFontSize),
   linesParam |-> Undefined]

NormalizeLines(q) ==
  [text |-> EmptyStr, bold |-> EmptyStr,
   thin |-> StringOr(FirstOrSelf(q.thin), EmptyStr),
   black |-> StringOr(FirstOrSelf(q.black), EmptyStr),
   color |-> StringOr(FirstOrSelf(q.color), DefaultColor),
   width |-> NormDim(FirstOrSelf(q.width), DefaultWidth),
   height |-> NormDim(FirstOrSelf(q.height), DefaultHeight),
   fontSize |-> NormDim(FirstOrSelf(q.fontSize), DefaultFontSize),
   linesParam |-> FirstOrSelf(q.lines)]

Normalize(v, q) ==
  CASE v = "text" -> NormalizeText(q)
    [] v = "thinblack" -> NormalizeThinBlack(q)
    [] v = "textbold" -> NormalizeTextBold(q)
    [] v = "lines" -> NormalizeLines(q)

(***************************************************************************)
(* Font files.  fs.readFileSync returns the file's bytes (named here by    *)
(* the file) or throws when the file is missing.                           *)
(***************************************************************************)
WeightThin == 100
WeightRegular == 400
WeightBold == 700
WeightBlack == 900

RegularTtf == "StabilGrotesk-Regular.ttf"
BoldTtf == "StabilGrotesk-Bold.ttf"
ThinTtf == "StabilGrotesk-Thin.ttf"
BlackTtf == "StabilGrotesk-Black.ttf"
AllFontFiles == {RegularTtf, BoldTtf, ThinTtf, BlackTtf}

\* The files a version reads, in reading order, with the weight it
\* registers each under.
FontsOf(v) ==
  IF v \in {"text", "textbold"}
    THEN <<[file |-> RegularTtf, weight |-> WeightRegular],
           [file |-> BoldTtf, weight |-> WeightBold]>>
    ELSE <<[file |-> ThinTtf, weight |-> WeightThin],
           [file |-> BlackTtf, weight |-> WeightBlack]>>

ReadFileSyncSubstituting(file) == [ok |-> TRUE, data |-> "system-font"]

ReadFileSync(file) ==
  IF file \in fontFiles
    THEN [ok |-> TRUE, data |-> file]
    ELSE [ok |-> FALSE, data |-> "ENOENT"]

\* The two reads and the fonts option built from them.
ReadFonts(v) ==
  LET f == FontsOf(v)
      a == ReadFileSync(f[1].file)
      b == ReadFileSync(f[2].file)
  IN  [ok |-> a.ok /\ b.ok,
       fonts |-> [k \in 1..2 |->
                    [name |-> "StabilGrotesk",
                     data |-> IF k = 1 THEN a.data ELSE b.data,
                     weight |-> f[k].weight,
                     style |-> "normal"]]]

(***************************************************************************)
(* The element tree handed to satori.  Of the styles, the tree keeps the   *)
(* flex direction and the background of a container and everything a span *)
(* is styled with; the centring styles, the same in every version, are     *)
(* left out.                                                               *)
(***************************************************************************)
\* part_000: one bold span.
BuildText(loc) ==
  [tag |-> "div",
   style |-> [flexDirection |-> "row", backgroundColor |-> "transparent"],
   children |->
     <<[tag |-> "span", fontWeight |-> WeightBold, color |-> loc.color,
        fontSize |-> loc.fontSize, whiteSpace |-> "pre-wrap",
        content |-> JStr(loc.text)]>>]

\* part_001: thin over black.
BuildThinBlack(loc) ==
  [tag |-> "div",
   style |-> [flexDirection |-> "column", backgroundColor |-> "transparent"],
   children |->
     <<[tag |-> "span", fontWeight |-> WeightThin, color |-> loc.color,
        fontSize |-> loc.fontSize, content |-> JStr(loc.thin)],
       [tag |-> "span", fontWeight |-> WeightBlack, color |-> loc.color,
        fontSize |-> loc.fontSize, content |-> JStr(loc.black)]>>]

\* generate-image.ts, first handler: colour and size sit on the root and
\* the spans inherit them; `boldParam && span` leaves an empty string, which
\* renders nothing, in place of the bold span when boldParam is empty.
BuildTextBold(loc) ==
  [tag |-> "div",
   style |-> [flexDirection |-> "row", backgroundColor |-> "#eee",
              fontSize |-> loc.fontSize, color |-> loc.color],
   children |->
     <<[tag |-> "span", fontWeight |-> WeightRegular,
        content |-> JStr(loc.text)]>>
     \o (IF Len(loc.bold) > 0
           THEN <<[tag |-> "span", fontWeight |-> WeightBold,
                   marginLeft |-> 10, content |-> JStr(loc.bold)]>>
           ELSE <<>>)]

\* x.name for a JSON value x other than null (which throws): a member of an
\* object (the last of that name), the length of an array or a string,
\* undefined otherwise.
Prop(x, name) ==
  CASE x.t = "obj" ->
         (LET hits == {k \in 1..Len(x.members) : x.members[k].key = name}
          IN  IF hits = {} THEN JUndef
              ELSE x.members[CHOOSE k \in hits : \A h \in hits : h <= k].val)
    [] x.t = "arr" /\ name = <<"l", "e", "n", "g", "t", "h">> -> JNum(Len(x.items))
    [] x.t = "str" /\ name = <<"l", "e", "n", "g", "t", "h">> -> JNum(Len(x.s))
    [] OTHER -> JUndef

\* x > 0 for a number, a boolean or undefined (the lengths the payloads of
\* the model have).
GreaterThanZero(x) ==
  CASE x.t = "num" -> x.n > 0
    [] x.t = "bool" -> x.b
    [] OTHER -> FALSE

FontWeightOfAsNamed(weight) ==
  CASE weight = JStr(<<"b", "l", "a", "c", "k">>) -> WeightBlack
    [] weight = JStr(<<"b", "o", "l", "d">>) -> WeightBold
    [] weight = JStr(<<"t", "h", "i", "n">>) -> WeightThin
    [] OTHER -> WeightRegular

\* span.weight === 'black' ? 900 : 100
FontWeightOf(weight) ==
  IF weight = JStr(<<"b", "l", "a", "c", "k">>) THEN WeightBlack ELSE WeightThin

SpanOfLine(span, loc) ==
  [tag |-> "span",
   fontWeight |-> FontWeightOf(Prop(span, <<"w", "e", "i", "g", "h", "t">>)),
   fontSize |-> loc.fontSize, color |-> loc.color, whiteSpace |-> "pre",
   content |-> Prop(span, <<"t", "e", "x", "t">>)]

RowOfLineReversed(line, loc) ==
  [tag |-> "div",
   style |-> [flexDirection |-> "row", alignItems |-> "baseline"],
   children |-> [k \in 1..Len(line.items) |->
                   SpanOfLine(line.items[Len(line.items) + 1 - k], loc)]]

\* line.map(span => span element), inside a baseline-aligned row.
RowOfLine(line, loc) ==
  [tag |-> "div",
   style |-> [flexDirection |-> "row", alignItems |-> "baseline"],
   children |-> [k \in 1..Len(line.items) |-> SpanOfLine(line.items[k], loc)]]

\* The old two-span children.
FallbackChildren(loc) ==
  <<[tag |-> "span", fontWeight |-> WeightThin, color |-> loc.color,
     fontSize |-> loc.fontSize, whiteSpace |-> "pre",
     content |-> JStr(loc.thin)],
    [tag |-> "span", fontWeight |-> WeightBlack, color |-> loc.color,
     fontSize |-> loc.fontSize, whiteSpace |-> "pre",
     content |-> JStr(loc.black)]>>

\* parsedLines.length > 0 ? parsedLines.map(...) : [thin span, black span].
\* A TypeError (ok = FALSE) comes from reading a property of null and from
\* calling map on something that has none.
BuildLines(loc, parsed) ==
  LET root(children) ==
        [tag |-> "div",
         style |-> [flexDirection |-> "column", backgroundColor |-> "transparent"],
         children |-> children]
      throws == [ok |-> FALSE, root |-> root(<<>>)]
  IN  IF parsed.t = "null" THEN throws
      ELSE IF ~GreaterThanZero(Prop(parsed, <<"l", "e", "n", "g", "t", "h">>))
        THEN [ok |-> TRUE, root |-> root(FallbackChildren(loc))]
      ELSE IF parsed.t # "arr" THEN throws
      ELSE IF \E r \in 1..Len(parsed.items) :
                \/ parsed.items[r].t # "arr"
                \/ \E c \in 1..Len(parsed.items[r].items) :
                     parsed.items[r].items[c].t = "null"
        THEN throws
      ELSE [ok |-> TRUE,
            root |-> root([r \in 1..Len(parsed.items) |->
                             RowOfLine(parsed.items[r], loc)])]

BuildLayout(v, loc, parsed) ==
  CASE v = "text" -> [ok |-> TRUE, root |-> BuildText(loc)]
    [] v = "thinblack" -> [ok |-> TRUE, root |-> BuildThinBlack(loc)]
    [] v = "textbold" -> [ok |-> TRUE, root |-> BuildTextBold(loc)]
    [] v = "lines" -> BuildLines(loc, parsed)

(***************************************************************************)
(* The two renderers: deterministic libraries outside the repository.      *)
(* What they reject is fixed per deployment and unknown, so the initial    *)
(* state chooses it: satori never throws ("lenient"), throws on a width or *)
(* height that is NaN or not positive ("strict"), or always throws         *)
(* ("broken"); the resvg import fails, its render fails, or both succeed.  *)
(***************************************************************************)
SatoriModes == {"lenient", "strict", "broken"}
ResvgModes == {"ok", "import_fails", "render_fails"}

BadDim(d) == d.nan \/ d.n <= 0

\* await satori(element, options): the SVG, a function of the arguments.
Satori(element, options) ==
  IF \/ satoriMode = "broken"
     \/ satoriMode = "strict" /\ (BadDim(options.width) \/ BadDim(options.height))
    THEN [ok |-> FALSE, svg |-> [none |-> TRUE]]
    ELSE [ok |-> TRUE, svg |-> [element |-> element, options |-> options]]

\* new Resvg(svg, {background}).render().asPng()
RenderPng(s) ==
  IF resvgMode = "render_fails"
    THEN [ok |-> FALSE, png |-> [none |-> TRUE]]
    ELSE [ok |-> TRUE, png |-> [svg |-> s, background |-> "rgba(0,0,0,0)"]]

(***************************************************************************)
(* Responses.                                                              *)
(***************************************************************************)
\* setHeader x 2, res.status(200).send(pngBuffer)
ImageResponse(png) ==
  [status |-> 200, contentType |-> "image/png",
   cacheControl |-> "no-store, max-age=0", body |-> [png |-> png]]

\* catch: console.error(...), res.status(500).json({error: ...})
ErrorResponse ==
  [status |-> 500, contentType |-> "application/json",
   cacheControl |-> "unset", body |-> [error |-> "Failed to generate image"]]

(***************************************************************************)
(* State of a request before its handler has run.                          *)
(***************************************************************************)
Unset == [unset |-> TRUE]
NoAttempts == [fonts |-> 0, decode |-> 0, satori |-> 0, import |-> 0, render |-> 0]

\* The arguments of request i's pending satori call, held by that call.
PendingCallShared(i) ==
  LET waiting == {j \in Requests : pc[j] = "satori"}
      last == CHOOSE j \in waiting : \A k \in waiting : k <= j
  IN  [element |-> tree[last], options |-> opts[last]]

PendingCall(i) == [element |-> tree[i], options |-> opts[i]]

(***************************************************************************)
(* The handler, one action per synchronous segment.                        *)
(***************************************************************************)
\* From the entry to `await satori(...)`: parameters, fonts, the lines
\* payload, the element tree; any throw goes to the catch block, which
\* answers 500.
Start(i) ==
  /\ pc[i] = "start"
  /\ LET loc == Normalize(variant, query[i])
         fr == ReadFonts(variant)
         dec == IF variant = "lines"
                  THEN DecodeLines(loc.linesParam)
                  ELSE [ok |-> TRUE, v |-> JArr(<<>>)]
         lay == BuildLayout(variant, loc, dec.v)
         failed == IF ~fr.ok THEN "fonts"
                   ELSE IF ~dec.ok THEN "decode"
                   ELSE IF ~lay.ok THEN "layout"
                   ELSE "none"
     IN  /\ locals' = [locals EXCEPT ![i] = loc]
         /\ attempts' = [attempts EXCEPT
              ![i].fonts = 1,
              ![i].decode = IF fr.ok /\ variant = "lines" /\ Truthy(loc.linesParam)
                              THEN 1 ELSE 0,
              ![i].satori = IF failed = "none" THEN 1 ELSE 0]
         /\ failedStage' = [failedStage EXCEPT ![i] = failed]
         /\ IF failed = "none"
              THEN /\ parsedLines' = [parsedLines EXCEPT ![i] = dec.v]
                   /\ tree' = [tree EXCEPT ![i] = lay.root]
                   /\ opts' = [opts EXCEPT ![i] =
                         [width |-> loc.width, height |-> loc.height,
                          fonts |-> fr.fonts]]
                   /\ pc' = [pc EXCEPT ![i] = "satori"]
                   /\ UNCHANGED response
              ELSE /\ parsedLines' = [parsedLines EXCEPT ![i] =
                         IF fr.ok /\ dec.ok THEN dec.v ELSE parsedLines[i]]
                   /\ response' = [response EXCEPT ![i] = Append(@, ErrorResponse)]
                   /\ pc' = [pc EXCEPT ![i] = "done"]
                   /\ UNCHANGED <<tree, opts>>
  /\ UNCHANGED <<envVars, query, svg>>

\* satori settles; on success the handler goes on to `await import(...)`.
SatoriSettles(i) ==
  /\ pc[i] = "satori"
  /\ LET r == Satori(PendingCall(i).element, PendingCall(i).options)
     IN  IF r.ok
           THEN /\ svg' = [svg EXCEPT ![i] = r.svg]
                /\ attempts' = [attempts EXCEPT ![i].import = 1]
                /\ pc' = [pc EXCEPT ![i] = "import"]
                /\ UNCHANGED <<response, failedStage>>
           ELSE /\ failedStage' = [failedStage EXCEPT ![i] = "satori"]
                /\ response' = [response EXCEPT ![i] = Append(@, ErrorResponse)]
                /\ pc' = [pc EXCEPT ![i] = "done"]
                /\ UNCHANGED <<svg, attempts>>
  /\ UNCHANGED <<envVars, query, locals, parsedLines, tree, opts>>

\* The import settles; on success the SVG is rendered and the PNG sent.
ImportSettles(i) ==
  /\ pc[i] = "import"
  /\ LET r == RenderPng(svg[i])
         failed == IF resvgMode = "import_fails" THEN "import"
                   ELSE IF ~r.ok THEN "render"
                   ELSE "none"
     IN  /\ failedStage' = [failedStage EXCEPT ![i] = failed]
         /\ attempts' = [attempts EXCEPT
              ![i].render = IF failed = "import" THEN 0 ELSE 1]
         /\ response' = [response EXCEPT ![i] =
              Append(@, IF failed = "none" THEN ImageResponse(r.png)
                        ELSE ErrorResponse)]
         /\ pc' = [pc EXCEPT ![i] = "done"]
  /\ UNCHANGED <<envVars, query, locals, parsedLines, tree, opts, svg>>

Next == \E i \in Requests : Start(i) \/ SatoriSettles(i) \/ ImportSettles(i)

(***************************************************************************)
(* The requests of the model.                                              *)
(***************************************************************************)
\* base64 of [[{"text":"Hi","weight":"thin"},{"text":"There","weight":"black"}]]
LinesHiThere ==
  <<"W", "1", "t", "7", "I", "n", "R", "l", "e", "H", "Q", "i", "O", "i",
    "J", "I", "a", "S", "I", "s", "I", "n", "d", "l", "a", "W", "d", "o",
    "d", "C", "I", "6", "I", "n", "R", "o", "a", "W", "4", "i", "f", "S",
    "x", "7", "I", "n", "R", "l", "e", "H", "Q", "i", "O", "i", "J", "U",
    "a", "G", "V", "y", "Z", "S", "I", "s", "I", "n", "d", "l", "a", "W",
    "d", "o", "d", "C", "I", "6", "I", "m", "J", "s", "Y", "W", "N", "r",
    "I", "n", "1", "d", "X", "Q", "=", "=">>

\* base64 of [[{"text":"A","weight":"black"}],[{"text":"B","weight":"thin"}]]
LinesTwoRows ==
  <<"W", "1", "t", "7", "I", "n", "R", "l", "e", "H", "Q", "i", "O", "i",
    "J", "B", "I", "i", "w", "i", "d", "2", "V", "p", "Z", "2", "h", "0",
    "I", "j", "o", "i", "Y", "m", "x", "h", "Y", "2", "s", "i", "f", "V",
    "0", "s", "W", "3", "s", "i", "d", "G", "V", "4", "d", "C", "I", "6",
    "I", "k", "I", "i", "L", "C", "J", "3", "Z", "W", "l", "n", "a", "H",
    "Q", "i", "O", "i", "J", "0", "a", "G", "l", "u", "I", "n", "1", "d",
    "X", "Q", "=", "=">>

\* base64 of [[{"text":"X","weight":"bold"}]]
LinesBoldTag ==
  <<"W", "1", "t", "7", "I", "n", "R", "l", "e", "H", "Q", "i", "O", "i",
    "J", "Y", "I", "i", "w", "i", "d", "2", "V", "p", "Z", "2", "h", "0",
    "I", "j", "o", "i", "Y", "m", "9", "s", "Z", "C", "J", "9", "X", "V",
    "0", "=">>

\* base64 of [[{"text":"Y"}]]
LinesNoWeight ==
  <<"W", "1", "t", "7", "I", "n", "R", "l", "e", "H", "Q", "i", "O", "i",
    "J", "Z", "I", "n", "1", "d", "X", "Q", "=", "=">>

\* base64 of [[]]
LinesEmptyRow ==
  <<"W", "1", "t", "d", "X", "Q", "=", "=">>

\* base64 of []
LinesEmptyArray ==
  <<"W", "1", "0", "=">>

\* base64 of {}
LinesObject ==
  <<"e", "3", "0", "=">>

\* base64 of {"length":2}
LinesObjectLength ==
  <<"e", "y", "J", "s", "Z", "W", "5", "n", "d", "G", "g", "i", "O", "j",
    "J", "9">>

\* base64 of 5
LinesNumber ==
  <<"N", "Q", "=", "=">>

\* base64 of null
LinesNull ==
  <<"b", "n", "V", "s", "b", "A", "=", "=">>

\* base64 of "ab"
LinesString ==
  <<"I", "m", "F", "i", "I", "g", "=", "=">>

\* base64 of [5]
LinesRowNumber ==
  <<"W", "z", "V", "d">>

\* base64 of [{"text":"A","weight":"thin"}]
LinesRowObject ==
  <<"W", "3", "s", "i", "d", "G", "V", "4", "d", "C", "I", "6", "I", "k",
    "E", "i", "L", "C", "J", "3", "Z", "W", "l", "n", "a", "H", "Q", "i",
    "O", "i", "J", "0", "a", "G", "l", "u", "I", "n", "1", "d">>

\* base64 of [[null]]
LinesSpanNull ==
  <<"W", "1", "t", "u", "d", "W", "x", "s", "X", "V", "0", "=">>

\* base64 of [[7]]
LinesSpanNumber ==
  <<"W", "1", "s", "3", "X", "V", "0", "=">>

\* base64 of [[{"text":"Hi"
LinesTruncated ==
  <<"W", "1", "t", "7", "I", "n", "R", "l", "e", "H", "Q", "i", "O", "i",
    "J", "I", "a", "S", "I", "=">>

\* Not base64: the '!' is skipped and the rest decodes to [].
LinesStrayChar == <<"W", "1", "!", "0">>

\* Not base64 at all: decodes to the empty text.
LinesNoBase64 == <<"!", "!", "!">>

LinesStrings ==
  {LinesHiThere, LinesTwoRows, LinesBoldTag, LinesNoWeight,
   LinesEmptyRow, LinesEmptyArray, LinesObject, LinesObjectLength,
   LinesNumber, LinesNull, LinesString, LinesRowNumber,
   LinesRowObject, LinesSpanNull, LinesSpanNumber, LinesTruncated,
   LinesStrayChar, LinesNoBase64}

Pink == <<"#", "f", "f", "0", "0", "a", "a">>
Red == <<"r", "e", "d">>

TextVals ==
  {QAbsent, QStr(<<>>), QStr(<<"H", "i">>),
   QArr(<<<<"Y", "o">>, <<"x">>>>), QArr(<<<<>>, <<"x">>>>)}
BoldVals == {QAbsent, QStr(<<>>), QStr(<<"B">>), QArr(<<<<>>, <<"b">>>>)}
ThinVals == {QAbsent, QStr(<<"T">>), QArr(<<<<"t", "1">>, <<"t", "2">>>>)}
BlackVals == {QAbsent, QStr(<<"K">>)}
ColorVals ==
  {QAbsent, QStr(<<>>), QStr(Pink), QArr(<<Pink, Red>>), QArr(<<<<>>, Red>>)}
DimVals ==
  {QAbsent, QStr(<<>>), QStr(<<"8">>), QStr(<<"0">>), QStr(<<"-", "5">>),
   QStr(<<"a", "b">>), QStr(<<"1", "2", "p", "x">>),
   QArr(<<<<"8">>, <<"9">>>>), QArr(<<<<>>, <<"5">>>>)}
LinesVals ==
  {QAbsent, QStr(<<>>)} \cup {QStr(l) : l \in LinesStrings}
    \cup {QArr(<<LinesHiThere, LinesEmptyArray>>), QArr(<<<<>>, LinesHiThere>>)}

\* The request without any parameter.
BaseQuery ==
  [text |-> QAbsent, bold |-> QAbsent, thin |-> QAbsent, black |-> QAbsent,
   lines |-> QAbsent, color |-> QAbsent, width |-> QAbsent,
   height |-> QAbsent, fontSize |-> QAbsent]

\* The parameters a version reads.
ReadBy(v) ==
  {"color", "width", "height", "fontSize"} \cup
    (CASE v = "text" -> {"text"}
       [] v = "textbold" -> {"text", "bold"}
       [] v = "thinblack" -> {"thin", "black"}
       [] v = "lines" -> {"thin", "black", "lines"})

Pick(v, p, vals) == IF p \in ReadBy(v) THEN vals ELSE {QAbsent}
PickOne(v, p, val) == IF p \in ReadBy(v) THEN val ELSE QAbsent

\* Requests to version v: every combination of the sizes, and every
\* combination of the texts, the colour and the lines payload.  A parameter
\* the version does not read is left out.
DimQueries ==
  {[BaseQuery EXCEPT !.width = w, !.height = h, !.fontSize = f] :
     w \in DimVals, h \in DimVals, f \in DimVals}

ContentQueries(v) ==
  {[BaseQuery EXCEPT !.text = t, !.bold = b, !.thin = n, !.black = k,
                     !.color = c, !.lines = l] :
     t \in Pick(v, "text", TextVals), b \in Pick(v, "bold", BoldVals),
     n \in Pick(v, "thin", ThinVals), k \in Pick(v, "black", BlackVals),
     c \in ColorVals, l \in Pick(v, "lines", LinesVals)}

Queries(v) == DimQueries \cup ContentQueries(v)

\* The font directories: complete, the second file of each pair missing,
\* the first missing.
FontDirs ==
  {AllFontFiles, AllFontFiles \ {BoldTtf, BlackTtf},
   AllFontFiles \ {RegularTtf, ThinTtf}}

InitLocals ==
  /\ locals = [i \in Requests |-> Unset]
  /\ parsedLines = [i \in Requests |-> JArr(<<>>)]
  /\ tree = [i \in Requests |-> Unset]
  /\ opts = [i \in Requests |-> Unset]
  /\ svg = [i \in Requests |-> Unset]
  /\ response = [i \in Requests |-> <<>>]
  /\ attempts = [i \in Requests |-> NoAttempts]
  /\ failedStage = [i \in Requests |-> "none"]

\* One request arrives; the other slots stay idle.
Init ==
  /\ variant \in Variants
  /\ fontFiles \in FontDirs
  /\ satoriMode \in SatoriModes
  /\ resvgMode \in ResvgModes
  /\ pc = [i \in Requests |-> IF i = 1 THEN "start" ELSE "idle"]
  /\ \E q \in Queries(variant) :
       query = [i \in Requests |-> IF i = 1 THEN q ELSE BaseQuery]
  /\ InitLocals

Spec == Init /\ [][Next]_vars

\* Requests that arrive together at one handler of a working deployment;
\* a request whose width is not a number fails under a strict satori.
ConcQueries(v) ==
  {BaseQuery,
   [BaseQuery EXCEPT !.color = QStr(Pink), !.width = QStr(<<"8">>),
                     !.text = PickOne(v, "text", QStr(<<"H", "i">>)),
                     !.thin = PickOne(v, "thin", QStr(<<"T">>))],
   [BaseQuery EXCEPT !.width = QStr(<<"a", "b">>),
                     !.lines = PickOne(v, "lines", QStr(LinesHiThere))]}

InitConc ==
  /\ variant \in Variants
  /\ fontFiles = AllFontFiles
  /\ satoriMode \in {"lenient", "strict"}
  /\ resvgMode = "ok"
  /\ pc = [i \in Requests |-> "start"]
  /\ query \in [Requests -> ConcQueries(variant)]
  /\ InitLocals

SpecConc == InitConc /\ [][Next]_vars

(***************************************************************************)
(* Vocabulary of the properties.                                           *)
(***************************************************************************)
\* The handler of request i has run its first segment.
Started(i) == pc[i] \in {"satori", "import", "done"}

\* Request i has built its element tree and called satori.
Laid(i) == tree[i] # Unset

Done(i) == pc[i] = "done"

IsRow(node) == node.tag = "div"
IsSpan(node) == node.tag = "span"

\* The text leaves of a tree: the spans under the root and under its rows.
LeavesOf(root) ==
  {root.children[k] : k \in {h \in 1..Len(root.children) : IsSpan(root.children[h])}}
    \cup UNION {{root.children[k].children[c] : c \in 1..Len(root.children[k].children)} :
                  k \in {h \in 1..Len(root.children) : IsRow(root.children[h])}}

\* The colour and size a leaf is drawn with: its own, or the root's.
LeafColor(root, leaf) ==
  IF "color" \in DOMAIN leaf THEN leaf.color ELSE root.style.color
LeafFontSize(root, leaf) ==
  IF "fontSize" \in DOMAIN leaf THEN leaf.fontSize ELSE root.style.fontSize

FontsPresent == \A k \in 1..2 : FontsOf(variant)[k].file \in fontFiles
RenderersWork == satoriMode # "broken" /\ resvgMode = "ok"

Stages == {"fonts", "decode", "satori", "import", "render"}

\* The lines string of a request (the first one of a repeated key), if any.
LinesOf(q) == FirstOrSelf(q.lines)
HasLines(q) == Truthy(LinesOf(q))
DecodedLines(q) == JsonParse(Base64DecodeUtf8(LinesOf(q).s))

\* s is base64 as RFC 4648 writes it: alphabet characters in groups of
\* four, the last group padded with '='.
IsBase64(s) ==
  /\ Len(s) % 4 = 0
  /\ \A k \in 1..Len(s) :
       \/ s[k] \in B64Chars
       \/ /\ s[k] = "="
          /\ k >= Len(s) - 1
          /\ \A h \in k..Len(s) : s[h] = "="

\* v is an array of rows of {text, weight} spans.
IsSpanObject(x) ==
  /\ x.t = "obj"
  /\ Prop(x, <<"t", "e", "x", "t">>).t = "str"
  /\ Prop(x, <<"w", "e", "i", "g", "h", "t">>).t = "str"

IsRowsOfSpans(v) ==
  /\ v.t = "arr"
  /\ \A r \in 1..Len(v.items) :
       /\ v.items[r].t = "arr"
       /\ \A c \in 1..Len(v.items[r].items) : IsSpanObject(v.items[r].items[c])

MalformedLines(q) ==
  /\ HasLines(q)
  /\ \/ ~IsBase64(LinesOf(q).s)
     \/ ~DecodedLines(q).ok
     \/ ~IsRowsOfSpans(DecodedLines(q).v)

WellFormedPayload(q) ==
  HasLines(q) /\ DecodedLines(q).ok /\ IsRowsOfSpans(DecodedLines(q).v)

(***************************************************************************)
(* Properties.                                                             *)
(***************************************************************************)
\* C1: every request gets exactly one response, sent when it ends: the
\* PNG of its own SVG with status 200 and the two image headers when no
\* stage failed, the 500 JSON error when one did; never a 200 with a font
\* file missing or a renderer failing; no stage is attempted twice.
C1_OneResponsePerRequest ==
  \A i \in Requests :
    /\ Len(response[i]) = (IF Done(i) THEN 1 ELSE 0)
    /\ \A st \in Stages : attempts[i][st] <= 1
    /\ Done(i) =>
         LET r == response[i][1]
         IN  /\ failedStage[i] # "none" => r = ErrorResponse
             /\ failedStage[i] = "none" =>
                  /\ svg[i] # Unset
                  /\ r = [status |-> 200, contentType |-> "image/png",
                          cacheControl |-> "no-store, max-age=0",
                          body |-> [png |-> [svg |-> svg[i],
                                             background |-> "rgba(0,0,0,0)"]]]
             /\ r.status = 200 => FontsPresent /\ RenderersWork
             /\ r.status \in {200, 500}

\* C1 witness: a lines request whose every stage ran once and whose last
\* stage, the rasterizer, failed: it got the 500 error and nothing else.
C1_Witness ==
  \E i \in Requests :
    /\ Done(i) /\ variant = "lines" /\ failedStage[i] = "render"
    /\ \A st \in Stages : attempts[i][st] = 1
    /\ response[i] = <<ErrorResponse>>

\* C2: in the lines version a request whose lines parameter is non-empty
\* and is not base64, not JSON, or not an array of rows of {text, weight}
\* spans is answered 500, and is never laid out with the flat thin/black
\* spans.
C2_MalformedLinesRejected ==
  \A i \in Requests :
    (variant = "lines" /\ MalformedLines(query[i])) =>
      /\ Done(i) => response[i] = <<ErrorResponse>>
      /\ Laid(i) => tree[i].children # FallbackChildren(locals[i])

\* C2 failing case: the lines value e30=, base64 of the JSON object {}, is
\* laid out with the flat thin/black spans and answered 200.
C2_FlatFallbackAnswered ==
  \E i \in Requests :
    /\ variant = "lines" /\ LinesOf(query[i]) = QStr(LinesObject)
    /\ MalformedLines(query[i])
    /\ Done(i) /\ response[i][1].status = 200
    /\ tree[i].children = FallbackChildren(locals[i])

\* C3: every text leaf is drawn in the colour parameter when that is a
\* non-empty string, and in #000000 when it is absent or empty.
C3_ColorPassThrough ==
  \A i \in Requests :
    Laid(i) =>
      \A leaf \in LeavesOf(tree[i]) :
        /\ (query[i].color.k = "str" /\ Len(query[i].color.s) > 0)
             => LeafColor(tree[i], leaf) = query[i].color.s
        /\ (query[i].color.k = "absent"
              \/ (query[i].color.k = "str" /\ Len(query[i].color.s) = 0))
             => LeafColor(tree[i], leaf) = DefaultColor

\* C3 failing case: the thin/black version draws its leaves in the empty
\* colour when the colour parameter is the empty string.
C3_EmptyColorDrawn ==
  \E i \in Requests :
    /\ variant = "thinblack" /\ query[i].color = QStr(EmptyStr) /\ Laid(i)
    /\ \A leaf \in LeavesOf(tree[i]) : LeafColor(tree[i], leaf) = EmptyStr
    /\ LeavesOf(tree[i]) # {}

\* C4: the width, height and font size a handler works with are positive
\* integers whatever the query strings are, and 1200, 630 and 64 when the
\* parameter is absent or empty.
C4_PositiveDimensions ==
  \A i \in Requests :
    Started(i) =>
      /\ \A d \in {locals[i].width, locals[i].height, locals[i].fontSize} :
           ~d.nan /\ d.n > 0
      /\ ~Truthy(FirstOrSelf(query[i].width)) => locals[i].width = Num(DefaultWidth)
      /\ ~Truthy(FirstOrSelf(query[i].height)) => locals[i].height = Num(DefaultHeight)
      /\ ~Truthy(FirstOrSelf(query[i].fontSize))
           => locals[i].fontSize = Num(DefaultFontSize)

\* C4 failing case: width "0" is handed to satori as 0, height "-5" as -5
\* and fontSize "ab" as NaN.
C4_NonPositiveHandedOn ==
  \E i \in Requests :
    /\ query[i].width = QStr(<<"0">>) /\ query[i].height = QStr(<<"-", "5">>)
    /\ query[i].fontSize = QStr(<<"a", "b">>)
    /\ Laid(i)
    /\ opts[i].width = Num(0) /\ opts[i].height = Num(0 - 5)
    /\ locals[i].fontSize = NaN

FirstValue(qv) == IF qv.k = "arr" THEN QStr(qv.a[1]) ELSE qv
FirstValues(q) == [p \in DOMAIN q |-> FirstValue(q[p])]

\* C6: a parameter delivered as an array of strings is normalized exactly
\* as the single string equal to the array's first element would be.
C6_ArrayAsFirstElement ==
  \A i \in Requests :
    Started(i) => locals[i] = Normalize(variant, FirstValues(query[i]))

\* C6 failing case: the text+bold version, which reads query.color without
\* taking the first element, gives the colour array [#ff00aa, red] the
\* default colour, and the single string #ff00aa itself.
C6_ArrayColorDefaulted ==
  \E i \in Requests :
    /\ variant = "textbold" /\ query[i].color = QArr(<<Pink, Red>>)
    /\ Started(i)
    /\ locals[i].color = DefaultColor
    /\ Normalize(variant, FirstValues(query[i])).color = Pink

\* C7: in the lines version a payload that decodes and parses takes the
\* place of the flat parameters: the thin/black spans are laid out only
\* when no lines payload was supplied.
C7_PayloadTakesPriority ==
  \A i \in Requests :
    (variant = "lines" /\ Laid(i) /\ HasLines(query[i]) /\ DecodedLines(query[i]).ok)
      => \A k \in 1..Len(tree[i].children) : IsRow(tree[i].children[k])

\* C7 failing case: the lines value W10=, base64 of the JSON array [],
\* parses, and the request is laid out with the flat thin span "T" and
\* answered 200.
C7_EmptyPayloadIgnored ==
  \E i \in Requests :
    /\ variant = "lines" /\ LinesOf(query[i]) = QStr(LinesEmptyArray)
    /\ query[i].thin = QStr(<<"T">>)
    /\ DecodedLines(query[i]).ok
    /\ Done(i) /\ response[i][1].status = 200
    /\ tree[i].children = FallbackChildren(locals[i])
    /\ tree[i].children[1].content = JStr(<<"T">>)

\* The row containers of a tree, in order.
RowsOf(root) == SelectSeq(root.children, IsRow)

\* C8: in the lines version the rows of the layout are the rows of a
\* well-formed payload, in order: row r holds one baseline-aligned leaf per
\* span of payload row r, in order, with the span's text as content, weight
\* 100 for "thin" and 900 for "black".
C8_RowsMirrorPayload ==
  \A i \in Requests :
    (variant = "lines" /\ Laid(i) /\ WellFormedPayload(query[i])) =>
      LET payload == DecodedLines(query[i]).v.items
          rows == RowsOf(tree[i])
      IN  /\ Len(rows) = Len(payload)
          /\ \A r \in 1..Len(payload) :
               /\ rows[r].style.flexDirection = "row"
               /\ rows[r].style.alignItems = "baseline"
               /\ Len(rows[r].children) = Len(payload[r].items)
               /\ \A c \in 1..Len(payload[r].items) :
                    LET span == payload[r].items[c]
                        leaf == rows[r].children[c]
                        weight == Prop(span, <<"w", "e", "i", "g", "h", "t">>)
                    IN  /\ IsSpan(leaf)
                        /\ leaf.content = Prop(span, <<"t", "e", "x", "t">>)
                        /\ weight = JStr(<<"t", "h", "i", "n">>)
                             => leaf.fontWeight = 100
                        /\ weight = JStr(<<"b", "l", "a", "c", "k">>)
                             => leaf.fontWeight = 900

\* C8 witness: the payload [[Hi thin, There black]] laid out as one row of
\* two leaves, "Hi" at 100 then "There" at 900.
C8_Witness ==
  \E i \in Requests :
    /\ variant = "lines" /\ Laid(i) /\ LinesOf(query[i]) = QStr(LinesHiThere)
    /\ Len(tree[i].children) = 1
    /\ Len(tree[i].children[1].children) = 2
    /\ tree[i].children[1].children[1].content = JStr(<<"H", "i">>)
    /\ tree[i].children[1].children[1].fontWeight = 100
    /\ tree[i].children[1].children[2].content = JStr(<<"T", "h", "e", "r", "e">>)
    /\ tree[i].children[1].children[2].fontWeight = 900

\* C9: requests with the same parameters are, at the same point of the
\* handler, in the same state, and get the same response, whatever the
\* other requests in flight are and however their segments interleave.
C9_NoInterference ==
  \A i, j \in Requests :
    (query[i] = query[j] /\ pc[i] = pc[j]) =>
      /\ locals[i] = locals[j]
      /\ tree[i] = tree[j]
      /\ opts[i] = opts[j]
      /\ svg[i] = svg[j]
      /\ response[i] = response[j]

\* C9 witness: two requests with the same parameters both answered 200
\* with the same PNG while a third, with other parameters, is in flight.
C9_Witness ==
  \E i, j, k \in Requests :
    /\ i # j /\ query[i] = query[j] /\ query[k] # query[i]
    /\ Done(i) /\ Done(j) /\ pc[k] \in {"satori", "import"}
    /\ response[i][1].status = 200
    /\ response[i] = response[j]

\* The weights registered with satori by request i.
RegisteredWeights(i) == {opts[i].fonts[k].weight : k \in 1..Len(opts[i].fonts)}

\* C10: every text leaf asks for a weight registered with satori in the
\* same call: 400 or 700 in the text and text+bold versions, 100 or 900 in
\* the thin/black and lines versions.
C10_LeafWeightsRegistered ==
  \A i \in Requests :
    Laid(i) =>
      /\ RegisteredWeights(i) =
           (IF variant \in {"text", "textbold"} THEN {400, 700} ELSE {100, 900})
      /\ \A leaf \in LeavesOf(tree[i]) : leaf.fontWeight \in RegisteredWeights(i)

\* C10 witness: a lines payload whose span is tagged "bold", laid out as a
\* leaf of weight 100.
C10_Witness ==
  \E i \in Requests :
    /\ variant = "lines" /\ Laid(i) /\ LinesOf(query[i]) = QStr(LinesBoldTag)
    /\ LeavesOf(tree[i]) # {}
    /\ \A leaf \in LeavesOf(tree[i]) : leaf.fontWeight = 100

====
